---- MODULE Spec2Model ----
(***************************************************************************)
(* Resumable batch-processing engine of pii-tool: build_resume_list,       *)
(* process_batches_for_file, update_result and main, for the three         *)
(* analyzer back ends that carry their own worker loop (piianalyzer,       *)
(* starpii, presidio).  The checkpoint file of every input file is         *)
(* modelled with its three on-disk shapes (absent, unparsable, parsable    *)
(* record), and update_result's write is modelled as the two steps the     *)
(* operating system sees: open(..., "w") truncates, json.dump fills.       *)
(* Runs are non-debug runs over one dataset ("c4") whose data directory     *)
(* holds the files of Files; a run can be killed from outside at any step.  *)
(*                                                                         *)
(* Spec      the engine: readable inputs, dataset "c4", kills at any step   *)
(* SpecIO    the engine with input files that cannot be opened, for the     *)
(*           dataset formats of iter_dataset                                *)
(* SpecPlan  build_resume_list over directory listings of real names        *)
(* SpecRead  iter_dataset over the lines of one input file                  *)
(* SpecBatch batched over one finite input sequence                         *)
(* SpecDebug the engine with --debug given or not, run by run               *)
(* SpecName  the engine for the dataset names the planner accepts           *)
(* SpecTar   the parallel extractor of data/openwebtext over its tar files   *)
(* SpecXz    process_single_tar of data/openwebtext over the xz members of   *)
(*           one tar file                                                    *)
(* SpecPool  the engine under every pool size and task cap, for plans that   *)
(*           name a file once or twice                                       *)
(***************************************************************************)
EXTENDS Integers, Sequences, FiniteSets, TLC

\* ------------------------------------------------------------- bounds
MaxRecs == 3
MaxLines == 3
MaxItems == 4
MaxBatchSize == 2
Workers == 2
MaxTars == 2
MaxTasksPerChild == 2
MaxXz == 3
MaxPerXz == 2
MaxLimit == 3
MaxTexts == 1

Files == {"f1", "f2"}
Backends == {"piianalyzer", "starpii", "presidio"}
Labels == <<"EMAIL", "PHONE", "PERSON">>

VARIABLES
    backend,      \* which run.py / presidio.py is executed
    batch_size,   \* --batch_size, held constant across runs
    nrec,         \* nrec[f]: number of well-formed records of input file f
    poison,       \* the text the analyzer raises on (0: it raises on none)
    disk,         \* disk[f]: the checkpoint file <results dir>/f.json
    phase,        \* main: "idle", "running", "finished", "aborted", "killed"
    wpc,          \* wpc[f]: position of the worker of f in process_batches_for_file
    resume,       \* resume[f]: resume_batch_cnt handed to the worker (-1: not planned)
    pos,          \* pos[f]: records consumed from line_iter
    batch_index,  \* batch_index[f]
    batch_items,  \* batch_items[f]: the chunk last pulled from batched(line_iter, n)
    pending,      \* pending[f]: result_data being dumped by update_result
    committed,    \* history: committed[f][k] = result whose update_result returned
    cntAtPlan,    \* history: batch_cnt stored for f when the plan was computed
    corruptAtPlan,\* history: f's checkpoint was unparsable when the plan was computed
    calls,        \* history: analyzer invocations for f in the current run
    runsDone,     \* history: consecutive runs that ended normally (capped at 2)
    onceDisk,     \* history: disk at the end of the first of those runs
    dataset_name, \* --dataset_name
    unreadable,   \* input files whose gzip.open raises (missing, no permission)
    data_dir,     \* os.listdir(data_path): the names in the data directory
    result_files, \* result_files[n]: the file <results dir>/n.json, n a file name
    resume_list,  \* the list build_resume_list returns, one element per append
    lines,        \* iter_dataset: the lines of the input file, by kind
    line_no,      \* iter_dataset: lines taken from f_in so far
    yielded,      \* iter_dataset: the payloads yielded so far (line numbers)
    gen,          \* iter_dataset: "closed", "open", "exhausted" or "raised"
    iterable,     \* batched: the input sequence
    size,         \* batched: n
    taken,        \* batched: elements islice has taken from it so far
    groups,       \* batched: the chunks yielded so far
    bgen,         \* batched: "closed", "open", "returned" or "raised"
    debug,        \* --debug of the current (or last) run
    shelf,        \* shelf[f]: f's checkpoint in the result directory not in use
                  \* (./debug_results when debug is off, ./results when it is on)
    tar_files,    \* parallel_extractor: the sorted *.tar files, by position
    unextractable,\* parallel_extractor: the tar files tarfile cannot extract
    dry_run,      \* parallel_extractor: --dry-run
    num_workers,  \* parallel_extractor: max_workers of the ProcessPoolExecutor
    future,       \* parallel_extractor: future[t], the future of tar file t
    jsonl,        \* parallel_extractor: the tar files whose <stem>.jsonl exists
    results,      \* parallel_extractor: the list results of main
    report,       \* parallel_extractor: what main prints after the pool
    xphase,       \* parallel_extractor: "start", "pool", "reported", "returned"
    workers,      \* --workers: the processes of the Pool
    max_tasks_per_child, \* --max_tasks_per_child (0: no cap)
    same,         \* the plan names one file twice: tasks f1 and f2 are both for f1
    slot,         \* slot[f]: the pool process that took the task of f (0: none)
    total_processed_batches, \* total_processed_batches[f] of the worker of f
    tar_extracts, \* process_single_tar: safe_extract_tar returns True
    xz_files,     \* process_single_tar: the texts of each xz member (0: None)
    max_texts,    \* process_single_tar: max_texts (0 stands for None as well)
    xz_i,         \* process_single_tar: xz members the outer loop has taken
    text_i,       \* process_single_tar: texts of the member the inner loop has taken
    texts_extracted, \* process_single_tar: texts_extracted
    written,      \* process_single_tar: the text_id of each line of output_jsonl
    returned,     \* process_single_tar: its return value (-1: none yet)
    xzpc          \* process_single_tar: "start", "outer", "inner", "returned", "raised"

vars == <<backend, batch_size, nrec, poison, disk, phase, wpc, resume, pos,
          batch_index, batch_items, pending, committed, cntAtPlan, corruptAtPlan, calls,
          runsDone, onceDisk, dataset_name, unreadable, data_dir, result_files,
          resume_list, lines, line_no, yielded, gen, iterable, size, taken, groups,
          bgen, debug, shelf, tar_files, unextractable, dry_run, num_workers, future, jsonl, results,
          report, xphase, workers, max_tasks_per_child, same, slot,
          total_processed_batches, tar_extracts, xz_files, max_texts, xz_i, text_i,
          texts_extracted, written, returned, xzpc>>

\* ------------------------------------------------------------- helpers
Min(a, b) == IF a < b THEN a ELSE b

MaxOf(S) == IF S = {} THEN 0 ELSE CHOOSE m \in S : \A x \in S : x <= m

\* ceil(n / b)
NumBatches(n, b) == (n + b - 1) \div b

\* ---------------------------------------------------- checkpoint files
\* result_data of a file that does not exist or fails to parse
FreshRecord == [st |-> "ok", batches |-> <<>>, batch_cnt |-> 0, completed |-> FALSE]

\* no checkpoint file
Absent == [st |-> "absent", batches |-> <<>>, batch_cnt |-> 0, completed |-> FALSE]

\* the file as open(path, "w") leaves it until json.dump has finished:
\* empty or a strict prefix of a JSON object, which json.load rejects
Truncated == [st |-> "corrupt", batches |-> <<>>, batch_cnt |-> 0, completed |-> FALSE]

\* the file after two processes have written to it from offset 0: one dump
\* followed by the tail of a longer one, which json.load rejects (no code
\* reads the fields of a rejected file; batch_cnt tells it from the empty file)
Garbled == [st |-> "corrupt", batches |-> <<>>, batch_cnt |-> -1, completed |-> FALSE]

\* ------------------------------------------------------------ analyzer
\* the text of record t carries one entity, of type LabelOf(t)
LabelOf(t) == Labels[(t % 3) + 1]

\* entity2cnt of a batch: label -> count, only for labels that occur
CountMap(items) ==
    [l \in {LabelOf(t) : t \in items} |-> Cardinality({t \in items : LabelOf(t) = l})]

\* a batcher that drops the short chunk at the end of the stream
ChunkDropsShort(p, n, total) == IF p + n <= total THEN (p + 1) .. (p + n) ELSE {}

\* records pos+1 .. pos+n of a stream of total records: list(islice(it, n))
Chunk(p, n, total) == (p + 1) .. Min(p + n, total)

\* ------------------------------------------------------------- batched
\* islice that loses the first element it takes
IsliceSkipsFirst(s, p, n) == SubSeq(s, p + 2, Min(p + n, Len(s)))

\* islice that takes one element more than asked
IsliceOneMore(s, p, n) == SubSeq(s, p + 1, Min(p + n + 1, Len(s)))

\* list(islice(it, n)) on an iterator that has given p elements of s
Islice(s, p, n) == SubSeq(s, p + 1, Min(p + n, Len(s)))

\* the groups batched yields for s after p elements; n <= 0 makes the first
\* chunk empty and the generator returns
RECURSIVE Batched(_, _, _)
Batched(s, p, n) ==
    IF Islice(s, p, n) = <<>>
    THEN <<>>
    ELSE <<Islice(s, p, n)>> \o Batched(s, p + Len(Islice(s, p, n)), n)

\* ------------------------------------------------------- update_result
\* json.load of an existing checkpoint raises JSONDecodeError; only the
\* presidio copy of update_result lets it escape (no try/except)
LoadRaises(d, be) == d.st = "corrupt" /\ be = "presidio"

\* update_result that starts from a fresh record whatever the file holds
LoadResultFresh(d) == FreshRecord

\* result_data after the read at the top of update_result
LoadResult(d) == IF d.st = "ok" THEN d ELSE FreshRecord

\* update_result without its line result_data["batch_cnt"] = batch_cnt
UpdateResultKeepsCnt(rd, cnt, cur_batch_result, completed) ==
    IF completed
    THEN [rd EXCEPT !.completed = TRUE]
    ELSE [rd EXCEPT !.completed = FALSE,
                    !.batches = (cnt :> cur_batch_result) @@ rd.batches]

\* result_data as update_result hands it to json.dump
UpdateResult(rd, cnt, cur_batch_result, completed) ==
    IF completed
    THEN [rd EXCEPT !.completed = TRUE]
    ELSE [rd EXCEPT !.batch_cnt = cnt,
                    !.completed = FALSE,
                    !.batches = (cnt :> cur_batch_result) @@ rd.batches]

\* --------------------------------------------------- build_resume_list
\* build_resume_list without "-1 if is_completed"
ResumeOffsetIgnoresCompleted(d) ==
    IF d.st = "absent" THEN 0
    ELSE IF d.st = "corrupt" THEN 0
    ELSE d.batch_cnt

\* filename2batchcnt.get(filename, 0) for one file of the data directory
ResumeOffset(d) ==
    IF d.st = "absent" THEN 0
    ELSE IF d.st = "corrupt" THEN 0
    ELSE IF d.completed THEN -1
    ELSE d.batch_cnt

\* sub in s
Contains(sub, s) ==
    \E i \in 1 .. (Len(s) - Len(sub) + 1) : SubSeq(s, i, i + Len(sub) - 1) = sub

\* s.endswith(suffix)
EndsWith(s, suffix) ==
    /\ Len(s) >= Len(suffix)
    /\ SubSeq(s, Len(s) - Len(suffix) + 1, Len(s)) = suffix

\* file[: -len(suffix)]: the last len(suffix) characters go, whatever they are
StripSuffix(file, suffix) == SubSeq(file, 1, Len(file) - Len(suffix))

\* the branch of the second loop taken for dataset ds ("" when none is taken):
\* the suffix it strips from a directory entry
DataSuffix(be, ds) ==
    IF be = "presidio"
    THEN IF Contains("c4", ds) THEN ".json.gz" ELSE ""
    ELSE IF Contains("c4", ds) \/ Contains("dolma", ds) THEN ".json.gz"
         ELSE IF Contains("googlenq", ds) THEN ".jsonl.gz"
         ELSE ""

\* the file names of resume_list, for a data directory that holds the files
\* of Files under the names the dataset's branch expects
BuildResumeList(dk) ==
    IF DataSuffix(backend, dataset_name) = ""
    THEN {}
    ELSE {f \in Files : ResumeOffset(dk[IF same THEN "f1" ELSE f]) # -1}

\* the first loop: filename2batchcnt, from the files of the result directory
Filename2BatchCnt(be, ds, rf) ==
    LET recorded == {n \in DOMAIN rf :
                        \/ rf[n].st = "corrupt"
                        \/ rf[n].st = "ok" /\ (be = "presidio" => Contains("c4", ds))}
    IN [n \in recorded |-> ResumeOffset(rf[n])]

\* filename2batchcnt.get(filename, 0)
GetOr0(m, filename) == IF filename \in DOMAIN m THEN m[filename] ELSE 0

\* the directory entries the second loop does not skip
Visited(be, listing) ==
    IF be = "presidio" THEN {file \in listing : EndsWith(file, ".json.gz")} ELSE listing

\* the second loop: one element <<file, filename, resume_batch_cnt>> for
\* every resume_list.append, file being the directory entry it was made from
ResumeList(be, ds, listing, rf) ==
    LET m == Filename2BatchCnt(be, ds, rf)
        suffix == DataSuffix(be, ds)
    IN IF suffix = ""
       THEN {}
       ELSE {e \in {<<file, StripSuffix(file, suffix),
                      GetOr0(m, StripSuffix(file, suffix))>> : file \in Visited(be, listing)} :
                e[3] # -1}

\* -------------------------------------------- process_batches_for_file
\* the batch size main passes to the workers in debug mode
DebugBatchSize == 10

\* the batch size of the worker loop: main's 10 in debug mode, which starpii
\* does not have: its worker sets batch_size = 1 when debug is on
BatchSize ==
    IF debug
    THEN IF backend = "starpii" THEN 1 ELSE DebugBatchSize
    ELSE batch_size

\* a skip loop over range(resume_batch_cnt): it discards records, not batches
StartSkipRecords(k, b, total) == Min(k, total)

\* records discarded by the skip loop: range(start_skip), stopped by StopIteration
StartSkip(k, b, total) == Min(k * b, total)

\* batch_index = i + 1: the numbering forgets the resume offset
BatchIndexFromOne(k, i) == i + 1

\* batch_index = resume_batch_cnt + i + 1
BatchIndex(k, i) == k + i + 1

\* how the loop body leaves the analyzer: "ok", "raise" (the exception leaves
\* process_batches_for_file) or "skip" (except ...: continue)
Outcome(be, items, bad) ==
    CASE be = "piianalyzer" -> IF bad \in items THEN "raise" ELSE "ok"
      [] be = "starpii"     -> IF bad \in items THEN "skip" ELSE "ok"
      [] be = "presidio"    -> "ok"

\* entity2cnt of the batch; presidio skips the item the analyzer raises on
Analyze(be, items, bad) ==
    IF be = "presidio" THEN CountMap(items \ {bad}) ELSE CountMap(items)

\* ------------------------------------------------------- iter_dataset
\* the payload field of the branch iter_dataset takes ("": no branch, the
\* generator yields nothing)
PayloadField(be, ds) ==
    IF be = "presidio"
    THEN IF ds = "c4" THEN "text"
         ELSE IF ds = "googlenq" THEN "question_text" ELSE ""
    ELSE IF ds = "c4" \/ Contains("dolma", ds) THEN "text"
         ELSE IF ds = "googlenq" THEN "question_text" ELSE ""

\* the branch wraps gzip.open and the line loop in try/except: only the
\* c4/dolma branch of the shared copy does
OuterTry(be, ds) == be # "presidio" /\ (ds = "c4" \/ Contains("dolma", ds))

\* gzip.open raises inside the generator and nothing catches it
ReadRaises(f) ==
    /\ f \in unreadable
    /\ ~OuterTry(backend, dataset_name)

\* the records line_iter yields: none when the open failed and the outer
\* except of the c4/dolma branch ended the generator, none when no branch of
\* iter_dataset matches the dataset name
StreamLen(f) ==
    IF f \in unreadable \/ PayloadField(backend, dataset_name) = "" THEN 0 ELSE nrec[f]

\* no branch of the worker assigns file_path (the branches compare the
\* dataset name by equality); presidio's worker has no such branch
PathUnbound ==
    /\ backend # "presidio"
    /\ dataset_name \notin {"c4", "dolma", "googlenq"}

Active == {"Resuming", "Streaming", "Committing", "Writing", "Marking"}
Raised == {"AnalyzerError", "JSONDecodeError", "ReadError", "UnboundLocalError"}

\* the checkpoint of the uninterrupted run of file f
ExpectedBatches(f) ==
    {k \in 1 .. NumBatches(nrec[f], batch_size) :
        Outcome(backend, Chunk((k - 1) * batch_size, batch_size, nrec[f]), poison)
            = "ok"}

Uninterrupted(f) ==
    [st |-> "ok",
     batches |-> [k \in ExpectedBatches(f) |->
                    Analyze(backend, Chunk((k - 1) * batch_size, batch_size, nrec[f]),
                            poison)],
     batch_cnt |-> MaxOf(ExpectedBatches(f)),
     completed |-> TRUE]

\* ---------------------------------------------------------------- Init
NoWorker == [f \in Files |-> "none"]

\* the variables of SpecPlan, where they play no part
NoListing ==
    /\ data_dir = {}
    /\ result_files = <<>>
    /\ resume_list = {}

\* the variables of SpecRead, where they play no part
NoReader ==
    /\ lines = <<>>
    /\ line_no = 0
    /\ yielded = <<>>
    /\ gen = "closed"

\* runs without --debug, ./debug_results empty
NoDebug ==
    /\ debug = FALSE
    /\ shelf = [f \in Files |-> Absent]

\* the variables of SpecBatch, where they play no part
NoBatcher ==
    /\ iterable = <<>>
    /\ size = 1
    /\ taken = 0
    /\ groups = <<>>
    /\ bgen = "closed"

\* the variables of SpecTar, where they play no part
NoReport == [successful |-> 0, no_texts |-> 0, failed |-> 0, listed |-> <<>>]

NoExtractor ==
    /\ tar_files = {}
    /\ unextractable = {}
    /\ dry_run = FALSE
    /\ num_workers = 1
    /\ future = <<>>
    /\ jsonl = {}
    /\ results = <<>>
    /\ report = NoReport
    /\ xphase = "start"

\* the variables of SpecXz, where they play no part
NoTarProc ==
    /\ tar_extracts = TRUE
    /\ xz_files = <<>>
    /\ max_texts = 0
    /\ xz_i = 0
    /\ text_i = 0
    /\ texts_extracted = 0
    /\ written = <<>>
    /\ returned = -1
    /\ xzpc = "start"

\* a Pool of Workers processes that are never replaced; no file is planned twice
NoPool ==
    /\ workers = Workers
    /\ max_tasks_per_child = 0
    /\ same = FALSE

\* before the first run: no checkpoint file, no process
EngineStart ==
    /\ slot = [f \in Files |-> 0]
    /\ total_processed_batches = [f \in Files |-> 0]
    /\ disk = [f \in Files |-> Absent]
    /\ phase = "idle"
    /\ wpc = NoWorker
    /\ resume = [f \in Files |-> -1]
    /\ pos = [f \in Files |-> 0]
    /\ batch_index = [f \in Files |-> 0]
    /\ batch_items = [f \in Files |-> {}]
    /\ pending = [f \in Files |-> Absent]
    /\ committed = [f \in Files |-> <<>>]
    /\ cntAtPlan = [f \in Files |-> 0]
    /\ corruptAtPlan = [f \in Files |-> FALSE]
    /\ calls = [f \in Files |-> 0]
    /\ runsDone = 0
    /\ onceDisk = [f \in Files |-> Absent]

\* The checkpoint directory is empty.  The two input files are interchangeable
\* (the plan is a set, no code reads a file name), so their sizes are taken up
\* to swapping; the text the analyzer raises on, if any, is one of f1's.
Init ==
    /\ backend \in Backends
    /\ batch_size \in 1 .. MaxBatchSize
    /\ nrec \in {n \in [Files -> 0 .. MaxRecs] : n["f2"] <= n["f1"]}
    /\ poison \in 0 .. nrec["f1"]
    /\ EngineStart
    /\ dataset_name = "c4"
    /\ unreadable = {}
    /\ NoListing
    /\ NoReader
    /\ NoBatcher
    /\ NoDebug
    /\ NoExtractor
    /\ NoTarProc
    /\ NoPool

listing == <<data_dir, result_files, resume_list>>
reader == <<lines, line_no, yielded, gen>>
batcher == <<iterable, size, taken, groups, bgen>>
mode == <<debug, shelf>>
extractor == <<tar_files, unextractable, dry_run, num_workers, future, jsonl, results, report, xphase>>
pool == <<workers, max_tasks_per_child, same>>
tarproc == <<tar_extracts, xz_files, max_texts, xz_i, text_i, texts_extracted, written,
             returned, xzpc>>
fixed == <<backend, batch_size, nrec, poison, dataset_name, unreadable, listing, reader,
           batcher, extractor, pool, tarproc>>
inputs == <<fixed, mode>>
locals == <<pos, batch_index, batch_items, pending, slot, total_processed_batches>>
planHistory == <<cntAtPlan, corruptAtPlan>>

\* ---------------------------------------------------------------- main
\* the file the task f of the plan is for: filename of its task_args
FileOf(f) == IF same THEN "f1" ELSE f

\* the dict process_batches_for_file returns
SummaryOf(f) ==
    [filename |-> FileOf(f),
     last_batch_cnt |-> batch_index[f],
     batches_processed |-> total_processed_batches[f],
     completed |-> ~debug]

\* the pool process w is inside a task
Busy(w) == \E f \in Files : slot[f] = w /\ wpc[f] \in Active

\* the tasks the pool process w has completed
Served(w) == Cardinality({f \in Files : slot[f] = w /\ wpc[f] = "Done"})

\* maxtasksperchild is passed to the Pool only when it is positive
Exhausted(w) == max_tasks_per_child > 0 /\ Served(w) >= max_tasks_per_child

\* the pool processes that can take a task
FreeSlots == {w \in 1 .. workers : ~Busy(w) /\ ~Exhausted(w)}

\* what the checkpoint file of task f holds once its json.dump has returned.
\* The dump writes from offset 0 of the file as it is then: empty, since the
\* task truncated it, unless another task of the same file has written in
\* between; then what is left is the dump, or the dump followed by the tail
\* of what was there.
Dumped(f) ==
    IF disk[FileOf(f)] = Truncated THEN {pending[f]} ELSE {pending[f], Garbled}

\* the plans main can go on with: resume_list, or in debug mode
\* resume_list[:1], whose one file is whichever os.listdir named first
Plans(dk, dbg) ==
    IF dbg /\ BuildResumeList(dk) # {}
    THEN {{f} : f \in BuildResumeList(dk)}
    ELSE {BuildResumeList(dk)}

\* main up to the Pool, on the result directory whose files are dk:
\* build_resume_list; an empty plan returns at once
StartRunOn(dk, dbg) ==
    /\ phase # "running"
    /\ disk' = dk
    /\ resume' = [f \in Files |-> ResumeOffset(dk[FileOf(f)])]
    /\ \E plan \in Plans(dk, dbg) :
          wpc' = [f \in Files |-> IF f \in plan THEN "queued" ELSE "none"]
    /\ cntAtPlan' = [f \in Files |->
                        IF dk[FileOf(f)].st = "ok" THEN dk[FileOf(f)].batch_cnt ELSE 0]
    /\ corruptAtPlan' = [f \in Files |-> dk[FileOf(f)].st = "corrupt"]
    /\ slot' = [f \in Files |-> 0]
    /\ total_processed_batches' = [f \in Files |-> 0]
    /\ calls' = [f \in Files |-> 0]
    /\ pos' = [f \in Files |-> 0]
    /\ batch_index' = [f \in Files |-> 0]
    /\ batch_items' = [f \in Files |-> {}]
    /\ pending' = [f \in Files |-> Absent]
    /\ IF BuildResumeList(dk) = {}
       THEN /\ phase' = "finished"
            /\ runsDone' = Min(runsDone + 1, 2)
            /\ onceDisk' = IF runsDone = 0 THEN dk ELSE onceDisk
       ELSE /\ phase' = "running"
            /\ UNCHANGED <<runsDone, onceDisk>>
    /\ UNCHANGED <<fixed, committed>>

\* a run with the same --debug as the run before
StartRun ==
    /\ StartRunOn(disk, debug)
    /\ UNCHANGED mode

\* a free pool worker takes the task of f (starpii: the for loop of main
\* reaches f).  Which process took it is recorded when the processes count
\* their tasks; processes that are never replaced are interchangeable
Dispatch(f) ==
    /\ phase = "running"
    /\ wpc[f] = "queued"
    /\ IF backend = "starpii"
       THEN /\ \A g \in Files : wpc[g] \notin Active \cup Raised
            /\ slot' = slot
       ELSE IF max_tasks_per_child > 0
       THEN /\ FreeSlots # {}
            /\ slot' = [slot EXCEPT
                           ![f] = CHOOSE w \in FreeSlots : \A v \in FreeSlots : w <= v]
       ELSE /\ Cardinality({g \in Files : wpc[g] \in Active}) < workers
            /\ slot' = slot
    /\ wpc' = [wpc EXCEPT ![f] = "Resuming"]
    /\ UNCHANGED <<inputs, disk, phase, resume, pos, batch_index, batch_items, pending,
                   total_processed_batches, committed, planHistory, calls, runsDone,
                   onceDisk>>

\* the choice of file_path, the skip loop and the initialisation of
\* batch_index
SkipCommitted(f) ==
    /\ phase = "running"
    /\ wpc[f] = "Resuming"
    /\ IF PathUnbound
       THEN /\ wpc' = [wpc EXCEPT ![f] = "UnboundLocalError"]
            /\ UNCHANGED <<pos, batch_index>>
       ELSE IF ReadRaises(FileOf(f)) /\ resume[f] * BatchSize > 0
       THEN /\ wpc' = [wpc EXCEPT ![f] = "ReadError"]
            /\ UNCHANGED <<pos, batch_index>>
       ELSE /\ pos' = [pos EXCEPT
                          ![f] = StartSkip(resume[f], BatchSize, StreamLen(FileOf(f)))]
            /\ batch_index' = [batch_index EXCEPT ![f] = resume[f]]
            /\ wpc' = [wpc EXCEPT ![f] = "Streaming"]
    /\ UNCHANGED <<inputs, disk, phase, resume, batch_items, pending, slot,
                   total_processed_batches, committed, planHistory, calls, runsDone,
                   onceDisk>>

\* update_result up to and including open(result_file_path, "w")
OpenForWrite(f, cnt, result, completed, writing) ==
    IF LoadRaises(disk[FileOf(f)], backend)
    THEN /\ wpc' = [wpc EXCEPT ![f] = "JSONDecodeError"]
         /\ UNCHANGED <<disk, pending>>
    ELSE /\ pending' = [pending EXCEPT
                          ![f] = UpdateResult(LoadResult(disk[FileOf(f)]), cnt, result,
                                              completed)]
         /\ disk' = [disk EXCEPT ![FileOf(f)] = Truncated]
         /\ wpc' = [wpc EXCEPT ![f] = writing]

\* the for statement pulls the next chunk; when batched is exhausted the loop
\* ends and, unless debug is on, update_result(rpath, None, None,
\* completed=True) starts.  The
\* generator opens the input at its first next(): here unless the skip loop
\* has called it
NextBatch(f) ==
    /\ phase = "running"
    /\ wpc[f] = "Streaming"
    /\ LET n == StreamLen(FileOf(f))
           chunk == Chunk(pos[f], BatchSize, n)
           i == (pos[f] - StartSkip(resume[f], BatchSize, n)) \div BatchSize
       IN IF ReadRaises(FileOf(f))
          THEN /\ wpc' = [wpc EXCEPT ![f] = "ReadError"]
               /\ UNCHANGED <<disk, pending, pos, batch_index, batch_items>>
          ELSE IF chunk = {} /\ debug
          THEN /\ wpc' = [wpc EXCEPT ![f] = "Done"]
               /\ UNCHANGED <<disk, pending, pos, batch_index, batch_items>>
          ELSE IF chunk = {}
          THEN /\ OpenForWrite(f, 0, <<>>, TRUE, "Marking")
               /\ UNCHANGED <<pos, batch_index, batch_items>>
          ELSE /\ pos' = [pos EXCEPT ![f] = pos[f] + Cardinality(chunk)]
               /\ batch_index' = [batch_index EXCEPT ![f] = BatchIndex(resume[f], i)]
               /\ batch_items' = [batch_items EXCEPT ![f] = chunk]
               /\ wpc' = [wpc EXCEPT ![f] = "Committing"]
               /\ UNCHANGED <<disk, pending>>
    /\ UNCHANGED <<inputs, phase, resume, slot, total_processed_batches, committed,
                   planHistory, calls, runsDone, onceDisk>>

\* the loop body: the analyzer, then update_result(..., completed=False) up to
\* the truncation of the checkpoint file
AnalyzeBatch(f) ==
    /\ phase = "running"
    /\ wpc[f] = "Committing"
    /\ calls' = [calls EXCEPT ![f] = calls[f] + 1]
    /\ LET how == Outcome(backend, batch_items[f], poison)
           r == Analyze(backend, batch_items[f], poison)
       IN CASE how = "raise" -> /\ wpc' = [wpc EXCEPT ![f] = "AnalyzerError"]
                                /\ UNCHANGED <<disk, pending>>
            [] how = "skip"  -> /\ wpc' = [wpc EXCEPT ![f] = "Streaming"]
                                /\ UNCHANGED <<disk, pending>>
            [] how = "ok"    -> OpenForWrite(f, batch_index[f], r, FALSE, "Writing")
    /\ UNCHANGED <<inputs, phase, resume, pos, batch_index, batch_items, slot,
                   total_processed_batches, committed, planHistory, runsDone, onceDisk>>

\* json.dump of the batch commit returns and the loop is left by the break
\* meant for debug: one batch per run, no completion mark
FinishCommitBreaks(f) ==
    /\ phase = "running"
    /\ wpc[f] = "Writing"
    /\ \E d \in Dumped(f) : disk' = [disk EXCEPT ![FileOf(f)] = d]
    /\ committed' = [committed EXCEPT
                       ![f] = (batch_index[f] :> pending[f].batches[batch_index[f]])
                              @@ committed[f]]
    /\ total_processed_batches' =
           [total_processed_batches EXCEPT ![f] = total_processed_batches[f] + 1]
    /\ wpc' = [wpc EXCEPT ![f] = "Done"]
    /\ UNCHANGED <<inputs, phase, resume, pos, batch_index, batch_items, pending, slot,
                   planHistory, calls, runsDone, onceDisk>>

\* json.dump of the batch commit returns; the loop goes on, or with debug on
\* it is left by the break and the worker returns without a completion mark
FinishCommit(f) ==
    /\ phase = "running"
    /\ wpc[f] = "Writing"
    /\ \E d \in Dumped(f) : disk' = [disk EXCEPT ![FileOf(f)] = d]
    /\ committed' = [committed EXCEPT
                       ![f] = (batch_index[f] :> pending[f].batches[batch_index[f]])
                              @@ committed[f]]
    /\ total_processed_batches' =
           [total_processed_batches EXCEPT ![f] = total_processed_batches[f] + 1]
    /\ wpc' = [wpc EXCEPT ![f] = IF debug THEN "Done" ELSE "Streaming"]
    /\ UNCHANGED <<inputs, phase, resume, pos, batch_index, batch_items, pending, slot,
                   planHistory, calls, runsDone, onceDisk>>

\* json.dump of the completion mark returns; the worker returns its summary
FinishMark(f) ==
    /\ phase = "running"
    /\ wpc[f] = "Marking"
    /\ \E d \in Dumped(f) : disk' = [disk EXCEPT ![FileOf(f)] = d]
    /\ wpc' = [wpc EXCEPT ![f] = "Done"]
    /\ UNCHANGED <<inputs, phase, resume, locals, committed, planHistory, calls,
                   runsDone, onceDisk>>

\* main has received every summary
FinishRun ==
    /\ phase = "running"
    /\ \A f \in Files : wpc[f] \in {"none", "Done"}
    /\ phase' = "finished"
    /\ runsDone' = Min(runsDone + 1, 2)
    /\ onceDisk' = IF runsDone = 0 THEN disk ELSE onceDisk
    /\ UNCHANGED <<inputs, disk, wpc, resume, locals, committed, planHistory, calls>>

\* every process of the run is gone; a file open for writing stays as it is
Stop(how) ==
    /\ phase' = how
    /\ wpc' = NoWorker
    /\ resume' = [f \in Files |-> -1]
    /\ pos' = [f \in Files |-> 0]
    /\ batch_index' = [f \in Files |-> 0]
    /\ batch_items' = [f \in Files |-> {}]
    /\ pending' = [f \in Files |-> Absent]
    /\ slot' = [f \in Files |-> 0]
    /\ total_processed_batches' = [f \in Files |-> 0]
    /\ runsDone' = 0
    /\ onceDisk' = [f \in Files |-> Absent]
    /\ UNCHANGED <<inputs, disk, committed, planHistory, calls>>

\* the exception of a worker is re-raised in main; leaving the with block
\* terminates the pool
Abort ==
    /\ phase = "running"
    /\ \E f \in Files : wpc[f] \in Raised
    /\ Stop("aborted")

\* external termination of the run
Kill ==
    /\ phase = "running"
    /\ Stop("killed")

Next ==
    \/ StartRun
    \/ \E f \in Files : Dispatch(f)
    \/ \E f \in Files : SkipCommitted(f)
    \/ \E f \in Files : NextBatch(f)
    \/ \E f \in Files : AnalyzeBatch(f)
    \/ \E f \in Files : FinishCommit(f)
    \/ \E f \in Files : FinishMark(f)
    \/ FinishRun
    \/ Abort
    \/ Kill

Spec == Init /\ [][Next]_vars

\* ------------------------------------------------ unopenable input files
\* Runs over input files some of which cannot be opened, for the dataset
\* names iter_dataset knows; the analyzer never raises and nobody kills.
InitIO ==
    /\ backend \in Backends
    /\ batch_size \in 1 .. MaxBatchSize
    /\ nrec \in [Files -> 0 .. MaxRecs]
    /\ poison = 0
    /\ EngineStart
    /\ dataset_name \in {"c4", "dolma", "googlenq"}
    /\ unreadable \in SUBSET Files
    /\ NoListing
    /\ NoReader
    /\ NoBatcher
    /\ NoDebug
    /\ NoExtractor
    /\ NoTarProc
    /\ NoPool

\* between two runs an input file is removed or loses its read permission
InputLost(f) ==
    /\ phase # "running"
    /\ f \notin unreadable
    /\ unreadable' = unreadable \cup {f}
    /\ UNCHANGED <<backend, batch_size, nrec, poison, dataset_name, listing, reader,
                   batcher, extractor, pool, tarproc, mode, disk, phase, wpc, resume, locals, committed, planHistory, calls, runsDone,
                   onceDisk>>

NextIO ==
    \/ StartRun
    \/ \E f \in Files : Dispatch(f)
    \/ \E f \in Files : SkipCommitted(f)
    \/ \E f \in Files : NextBatch(f)
    \/ \E f \in Files : AnalyzeBatch(f)
    \/ \E f \in Files : FinishCommit(f)
    \/ \E f \in Files : FinishMark(f)
    \/ FinishRun
    \/ Abort
    \/ \E f \in Files : InputLost(f)

SpecIO == InitIO /\ [][NextIO]_vars

\* ----------------------------------------------------- directory listings
\* build_resume_list on its own, over listings of the data directory that
\* hold input files of both formats and entries that are no input file, and
\* over result directories in every shape a run can leave.
DirEntries == {"a.json.gz", "b.json.gz", "a.jsonl.gz", "a.json.xz", "notes"}
DatasetNames == {"c4", "dolma", "googlenq", "c4_en"}
ResultNames == {"a", "b"}

\* the shapes of a checkpoint file: none, unparsable, in progress at batch c,
\* completed after c batches
CheckpointShapes ==
    {Absent, Truncated}
    \cup {[st |-> "ok", batches |-> [k \in 1 .. c |-> CountMap({k})], batch_cnt |-> c,
           completed |-> d] : c \in 1 .. MaxRecs, d \in BOOLEAN}
    \cup {[st |-> "ok", batches |-> <<>>, batch_cnt |-> 0, completed |-> TRUE]}

InitPlan ==
    /\ backend \in Backends
    /\ dataset_name \in DatasetNames
    /\ data_dir \in SUBSET DirEntries
    /\ result_files \in [ResultNames -> CheckpointShapes]
    /\ resume_list = {}
    /\ batch_size = 1
    /\ nrec = [f \in Files |-> 0]
    /\ poison = 0
    /\ unreadable = {}
    /\ EngineStart
    /\ NoReader
    /\ NoBatcher
    /\ NoDebug
    /\ NoExtractor
    /\ NoTarProc
    /\ NoPool

\* main calls build_resume_list
BuildPlan ==
    /\ phase = "idle"
    /\ resume_list' = ResumeList(backend, dataset_name, data_dir, result_files)
    /\ phase' = "planned"
    /\ UNCHANGED <<backend, batch_size, nrec, poison, dataset_name, unreadable, data_dir,
                   result_files, reader, batcher, extractor, pool, tarproc, mode, disk, wpc, resume, locals, committed, planHistory,
                   calls, runsDone, onceDisk>>

NextPlan == BuildPlan

SpecPlan == InitPlan /\ [][NextPlan]_vars

\* ------------------------------------------------------------ line streams
\* iter_dataset on its own, over every file of at most MaxLines lines.  A
\* line is well formed ("ok"), is no JSON ("badjson"), is JSON without the
\* payload field of the branch ("nofield"), or is made of bytes the gzip or
\* utf-8 decoder of f_in rejects ("undecodable").
LineKinds == {"ok", "badjson", "nofield", "undecodable"}

LineSeqs == UNION {[1 .. n -> LineKinds] : n \in 0 .. MaxLines}

InitRead ==
    /\ backend \in Backends
    /\ dataset_name \in {ds \in {"c4", "dolma", "googlenq"} : PayloadField(backend, ds) # ""}
    /\ lines \in LineSeqs
    /\ line_no = 0
    /\ yielded = <<>>
    /\ gen = "open"
    /\ batch_size = 1
    /\ nrec = [f \in Files |-> 0]
    /\ poison = 0
    /\ unreadable = {}
    /\ EngineStart
    /\ NoListing
    /\ NoBatcher
    /\ NoDebug
    /\ NoExtractor
    /\ NoTarProc
    /\ NoPool

engine == <<backend, batch_size, nrec, poison, dataset_name, unreadable, listing, batcher,
            extractor, pool, tarproc, mode, disk, phase, wpc, resume, locals, committed, planHistory, calls, runsDone, onceDisk>>

\* json.loads(line) and item[field] succeed: the payload is yielded
YieldLine ==
    /\ gen = "open"
    /\ line_no < Len(lines)
    /\ lines[line_no + 1] = "ok"
    /\ line_no' = line_no + 1
    /\ yielded' = Append(yielded, line_no + 1)
    /\ UNCHANGED <<lines, gen, engine>>

\* json.loads(line) or item[field] raises: except Exception: continue
SkipLine ==
    /\ gen = "open"
    /\ line_no < Len(lines)
    /\ lines[line_no + 1] \in {"badjson", "nofield"}
    /\ line_no' = line_no + 1
    /\ UNCHANGED <<lines, yielded, gen, engine>>

\* the for statement asks f_in for a line and the decoder raises: f_in
\* decodes a block at a time, so the error surfaces at the undecodable line
\* or at a line before it of the same block.  It is raised outside the inner
\* try: the outer except ends the generator, or the error leaves it
DecodeError ==
    /\ gen = "open"
    /\ \E j \in (line_no + 1) .. Len(lines) : lines[j] = "undecodable"
    /\ gen' = IF OuterTry(backend, dataset_name) THEN "exhausted" ELSE "raised"
    /\ UNCHANGED <<lines, line_no, yielded, engine>>

\* f_in has no further line
EndOfFile ==
    /\ gen = "open"
    /\ line_no = Len(lines)
    /\ gen' = "exhausted"
    /\ UNCHANGED <<lines, line_no, yielded, engine>>

NextRead ==
    \/ YieldLine
    \/ SkipLine
    \/ DecodeError
    \/ EndOfFile

SpecRead == InitRead /\ [][NextRead]_vars

\* ----------------------------------------------------------------- batches
\* batched on its own, over every sequence of at most MaxItems records (two
\* record values, so that a sequence can hold a record twice) and every
\* size argument argparse's type=int lets through, 0 and negative included.
Records == {"r1", "r2"}

ItemSeqs == UNION {[1 .. n -> Records] : n \in 0 .. MaxItems}

InitBatch ==
    /\ iterable \in ItemSeqs
    /\ size \in -1 .. MaxBatchSize
    /\ taken = 0
    /\ groups = <<>>
    /\ bgen = "open"
    /\ backend = "piianalyzer"
    /\ batch_size = 1
    /\ nrec = [f \in Files |-> 0]
    /\ poison = 0
    /\ dataset_name = "c4"
    /\ unreadable = {}
    /\ EngineStart
    /\ NoListing
    /\ NoReader
    /\ NoDebug
    /\ NoExtractor
    /\ NoTarProc
    /\ NoPool

notBatcher == <<backend, batch_size, nrec, poison, dataset_name, unreadable, listing, reader,
                extractor, pool, tarproc, mode, disk, phase, wpc, resume, locals, committed, planHistory, calls, runsDone,
                onceDisk>>

\* chunk = list(islice(it, n)) is not empty: yield chunk
YieldChunk ==
    /\ bgen = "open"
    /\ size >= 0
    /\ Islice(iterable, taken, size) # <<>>
    /\ groups' = Append(groups, Islice(iterable, taken, size))
    /\ taken' = Min(taken + size, Len(iterable))
    /\ UNCHANGED <<iterable, size, bgen, notBatcher>>

\* chunk is empty: return
ReturnOnEmpty ==
    /\ bgen = "open"
    /\ size >= 0
    /\ Islice(iterable, taken, size) = <<>>
    /\ bgen' = "returned"
    /\ UNCHANGED <<iterable, size, taken, groups, notBatcher>>

\* islice refuses a negative stop with ValueError
IsliceRaises ==
    /\ bgen = "open"
    /\ size < 0
    /\ bgen' = "raised"
    /\ UNCHANGED <<iterable, size, taken, groups, notBatcher>>

NextBatchGen ==
    \/ YieldChunk
    \/ ReturnOnEmpty
    \/ IsliceRaises

SpecBatch == InitBatch /\ [][NextBatchGen]_vars

\* -------------------------------------------------------------- debug mode
\* Runs of the engine each started with or without --debug, over readable
\* inputs; nobody kills.  debug selects the result directory, makes main keep
\* one file of the plan, sets the batch size and ends the worker loop after
\* one commit.
InitDebug ==
    /\ backend \in Backends
    /\ batch_size \in 1 .. MaxBatchSize
    /\ nrec \in {n \in [Files -> 0 .. MaxRecs] : n["f2"] <= n["f1"]}
    /\ poison \in 0 .. nrec["f1"]
    /\ EngineStart
    /\ dataset_name = "c4"
    /\ unreadable = {}
    /\ NoListing
    /\ NoReader
    /\ NoBatcher
    /\ NoDebug
    /\ NoExtractor
    /\ NoTarProc
    /\ NoPool

\* main with --debug = d: result_dir is ./debug_results or ./results
StartRunAs(d) ==
    /\ StartRunOn(IF d = debug THEN disk ELSE shelf, d)
    /\ debug' = d
    /\ shelf' = IF d = debug THEN shelf ELSE disk

NextDebug ==
    \/ \E d \in BOOLEAN : StartRunAs(d)
    \/ \E f \in Files : Dispatch(f)
    \/ \E f \in Files : SkipCommitted(f)
    \/ \E f \in Files : NextBatch(f)
    \/ \E f \in Files : AnalyzeBatch(f)
    \/ \E f \in Files : FinishCommit(f)
    \/ \E f \in Files : FinishMark(f)
    \/ FinishRun
    \/ Abort

SpecDebug == InitDebug /\ [][NextDebug]_vars

\* ------------------------------------------------------------ dataset names
\* Runs of the engine for every dataset name of DatasetNames: the planner
\* tests the name with "in", the worker and the reader with "==".  Inputs
\* are readable, the analyzer never raises, nobody kills.
InitName ==
    /\ backend \in Backends
    /\ batch_size \in 1 .. MaxBatchSize
    /\ nrec \in {n \in [Files -> 0 .. MaxRecs] : n["f2"] <= n["f1"]}
    /\ poison = 0
    /\ EngineStart
    /\ dataset_name \in DatasetNames
    /\ unreadable = {}
    /\ NoListing
    /\ NoReader
    /\ NoBatcher
    /\ NoDebug
    /\ NoExtractor
    /\ NoTarProc
    /\ NoPool

NextName ==
    \/ StartRun
    \/ \E f \in Files : Dispatch(f)
    \/ \E f \in Files : SkipCommitted(f)
    \/ \E f \in Files : NextBatch(f)
    \/ \E f \in Files : AnalyzeBatch(f)
    \/ \E f \in Files : FinishCommit(f)
    \/ \E f \in Files : FinishMark(f)
    \/ FinishRun
    \/ Abort

SpecName == InitName /\ [][NextName]_vars

\* ------------------------------------------------------- process_single_tar
\* OpenWebTextExtractor.process_single_tar on one tar file: safe_extract_tar,
\* then the loop over the xz members and, inside, the loop over the texts
\* extract_text_from_xz returned for the member (None for a member it cannot
\* read or that holds no text).  One step per loop turn.

\* "max_texts and texts_extracted >= max_texts"
LimitReachedLate(m, n) == m # 0 /\ n > m
LimitReached(m, n) == m # 0 /\ n >= m

XzSeqs == UNION {[1 .. n -> 0 .. MaxPerXz] : n \in 0 .. MaxXz}

InitXz ==
    /\ backend = "piianalyzer"
    /\ batch_size = 1
    /\ nrec = [f \in Files |-> 0]
    /\ poison = 0
    /\ EngineStart
    /\ dataset_name = "c4"
    /\ unreadable = {}
    /\ NoListing
    /\ NoReader
    /\ NoBatcher
    /\ debug = FALSE
    /\ shelf = [f \in Files |-> Absent]
    /\ tar_files = {}
    /\ unextractable = {}
    /\ dry_run = FALSE
    /\ num_workers = 1
    /\ future = <<>>
    /\ jsonl = {}
    /\ results = <<>>
    /\ report = NoReport
    /\ xphase = "start"
    /\ NoPool
    /\ tar_extracts \in BOOLEAN
    /\ xz_files \in XzSeqs
    /\ max_texts \in -1 .. MaxLimit
    /\ xz_i = 0
    /\ text_i = 0
    /\ texts_extracted = 0
    /\ written = <<>>
    /\ returned = -1
    /\ xzpc = "start"

notTarProc == <<backend, batch_size, nrec, poison, dataset_name, unreadable, listing, reader,
                batcher, extractor, pool, mode, disk, phase, wpc, resume, locals, committed,
                planHistory, calls, runsDone, onceDisk>>

\* lines 101-114: the archive cannot be extracted, or holds no xz member:
\* return 0
Extract ==
    /\ xzpc = "start"
    /\ IF ~tar_extracts \/ xz_files = <<>>
       THEN /\ returned' = 0
            /\ xzpc' = "returned"
       ELSE /\ xzpc' = "outer"
            /\ UNCHANGED returned
    /\ UNCHANGED <<tar_extracts, xz_files, max_texts, xz_i, text_i, texts_extracted,
                   written, notTarProc>>

\* lines 119-126 and 149-150: one turn of the loop over xz_files, or its end
NextXz ==
    /\ xzpc = "outer"
    /\ IF xz_i = Len(xz_files) \/ LimitReached(max_texts, texts_extracted)
       THEN /\ returned' = texts_extracted
            /\ xzpc' = "returned"
            /\ UNCHANGED <<xz_i, text_i>>
       ELSE /\ xz_i' = xz_i + 1
            /\ text_i' = 0
            /\ xzpc' = IF xz_files[xz_i + 1] > 0 THEN "inner" ELSE "outer"
            /\ UNCHANGED returned
    /\ UNCHANGED <<tar_extracts, xz_files, max_texts, texts_extracted, written, notTarProc>>

\* lines 127-147: one turn of the loop over text_contents: break, or write
\* the record with text_id = texts_extracted
NextText ==
    /\ xzpc = "inner"
    /\ IF text_i = xz_files[xz_i] \/ LimitReached(max_texts, texts_extracted)
       THEN /\ xzpc' = "outer"
            /\ UNCHANGED <<text_i, texts_extracted, written>>
       ELSE /\ written' = Append(written, texts_extracted)
            /\ texts_extracted' = texts_extracted + 1
            /\ text_i' = text_i + 1
            /\ UNCHANGED xzpc
    /\ UNCHANGED <<tar_extracts, xz_files, max_texts, xz_i, returned, notTarProc>>

\* line 143: output_jsonl.write raises (disk full); the exception leaves
\* process_single_tar
WriteRaises ==
    /\ xzpc = "inner"
    /\ text_i < xz_files[xz_i]
    /\ ~LimitReached(max_texts, texts_extracted)
    /\ xzpc' = "raised"
    /\ UNCHANGED <<tar_extracts, xz_files, max_texts, xz_i, text_i, texts_extracted,
                   written, returned, notTarProc>>

NextXzStep ==
    \/ Extract
    \/ NextXz
    \/ NextText
    \/ WriteRaises

SpecXz == InitXz /\ [][NextXzStep]_vars

\* ------------------------------------------------------------------ pool
\* Runs of the two back ends that hand their plan to a multiprocessing Pool,
\* for every --workers >= 1 and every --max_tasks_per_child, over plans that
\* name each file once and, where build_resume_list has no suffix test
\* (every copy but presidio's), plans that name one file twice.  Inputs are
\* readable, the analyzer never raises, nobody kills.
InitPool ==
    /\ backend \in {"piianalyzer", "presidio"}
    /\ batch_size \in 1 .. MaxBatchSize
    /\ nrec \in {n \in [Files -> 0 .. MaxRecs] : n["f2"] <= n["f1"]}
    /\ poison = 0
    /\ EngineStart
    /\ dataset_name = "c4"
    /\ unreadable = {}
    /\ NoListing
    /\ NoReader
    /\ NoBatcher
    /\ NoDebug
    /\ NoExtractor
    /\ NoTarProc
    /\ workers \in 1 .. Workers
    /\ max_tasks_per_child \in 0 .. MaxTasksPerChild
    /\ same \in IF backend = "presidio" THEN {FALSE} ELSE BOOLEAN
    /\ same => nrec["f2"] = 0

\* the Pool replaces a process that has completed max_tasks_per_child tasks
Recycle(w) ==
    /\ phase = "running"
    /\ ~Busy(w)
    /\ Exhausted(w)
    /\ slot' = [f \in Files |-> IF slot[f] = w THEN 0 ELSE slot[f]]
    /\ UNCHANGED <<inputs, disk, phase, wpc, resume, pos, batch_index, batch_items,
                   pending, total_processed_batches, committed, planHistory, calls,
                   runsDone, onceDisk>>

NextPool ==
    \/ StartRun
    \/ \E f \in Files : Dispatch(f)
    \/ \E f \in Files : SkipCommitted(f)
    \/ \E f \in Files : NextBatch(f)
    \/ \E f \in Files : AnalyzeBatch(f)
    \/ \E f \in Files : FinishCommit(f)
    \/ \E f \in Files : FinishMark(f)
    \/ \E w \in 1 .. workers : Recycle(w)
    \/ FinishRun

SpecPool == InitPool /\ [][NextPool]_vars

\* ------------------------------------------------------ parallel extractor
\* data/openwebtext/parallel_extractor.py: main submits one task per tar file
\* to a ProcessPoolExecutor of num_workers processes and collects the futures
\* with as_completed.  A tar file is its position in sorted(glob("*.tar")).
\* What process_single_tar_worker meets is an input of the step that ends it:
\* a number of texts, an exception inside its try block (before or after the
\* output file was opened), an exception inside its except block, or the
\* death of the worker process, which breaks the pool.

\* str(e) of what the try block of the worker can raise
WorkerErrors == {"OSError"}

\* str(e) of what line 61 can raise inside the except block
HandlerErrors == {"UnicodeEncodeError"}

Pending == [st |-> "pending"]
Running == [st |-> "running"]
Returned(r) == [st |-> "result", result |-> r]
Excepted(e) == [st |-> "exception", error |-> e]

Done(fu) == fu.st \in {"result", "exception"}

\* process_single_tar_worker, lines 38-58: the dict for texts_count texts
TextsResult(t, texts_count) ==
    IF texts_count > 0
    THEN [status |-> "success", tar_file |-> t, texts_count |-> texts_count,
          output_file |-> t]
    ELSE [status |-> "no_texts", tar_file |-> t, texts_count |-> 0, output_file |-> t]

\* process_single_tar_worker, lines 71-77: the dict of the except block
ErrorResult(t, e) ==
    [status |-> "error", tar_file |-> t, error |-> e, texts_count |-> 0]

\* main, lines 164-170: the dict main builds when future.result() raises
ExceptionResult(t, e) ==
    [status |-> "exception", tar_file |-> t, error |-> e, texts_count |-> 0]

\* main, lines 154-170: what one turn of the as_completed loop appends
Collected(t, fu) ==
    IF fu.st = "result" THEN fu.result ELSE ExceptionResult(t, fu.error)

SelectSeq2(rs, statuses) ==
    LET Test(r) == r.status \in statuses
    IN  SelectSeq(rs, Test)

\* main, lines 176-178
Successful(rs) == SelectSeq2(rs, {"success"})
FailedOnlyError(rs) == SelectSeq2(rs, {"error"})
Failed(rs) == SelectSeq2(rs, {"error", "exception"})
NoTexts(rs) == SelectSeq2(rs, {"no_texts"})

\* r.get('error', 'Unknown error')
GetError(r) == IF "error" \in DOMAIN r THEN r.error ELSE "Unknown error"

\* main, lines 186-195: the three counts and the lines of the failed files
Summary(rs) ==
    [successful |-> Len(Successful(rs)),
     no_texts   |-> Len(NoTexts(rs)),
     failed     |-> Len(Failed(rs)),
     listed     |-> [i \in 1 .. Len(Failed(rs)) |->
                        <<Failed(rs)[i].tar_file, GetError(Failed(rs)[i])>>]]

InitTar ==
    /\ backend = "piianalyzer"
    /\ batch_size = 1
    /\ nrec = [f \in Files |-> 0]
    /\ poison = 0
    /\ EngineStart
    /\ dataset_name = "c4"
    /\ unreadable = {}
    /\ NoListing
    /\ NoReader
    /\ NoBatcher
    /\ debug = FALSE
    /\ shelf = [f \in Files |-> Absent]
    /\ tar_files \in {1 .. n : n \in 0 .. MaxTars}
    /\ unextractable \in SUBSET tar_files
    /\ dry_run \in BOOLEAN
    /\ num_workers \in 1 .. Workers
    /\ future = <<>>
    /\ jsonl = {}
    /\ results = <<>>
    /\ report = NoReport
    /\ xphase = "start"
    /\ NoPool
    /\ NoTarProc

notExtractor == <<backend, batch_size, nrec, poison, dataset_name, unreadable, listing, reader,
                  batcher, pool, tarproc, mode, disk, phase, wpc, resume, locals, committed, planHistory,
                  calls, runsDone, onceDisk>>

\* main, lines 95-127: no tar file, or --dry-run: main returns
MainReturns ==
    /\ xphase = "start"
    /\ tar_files = {} \/ dry_run
    /\ xphase' = "returned"
    /\ UNCHANGED <<tar_files, unextractable, dry_run, num_workers, future, jsonl, results, report,
                   notExtractor>>

\* main, lines 129-149: every tar file is submitted
SubmitAll ==
    /\ xphase = "start"
    /\ tar_files # {}
    /\ ~dry_run
    /\ future' = [t \in tar_files |-> Pending]
    /\ xphase' = "pool"
    /\ UNCHANGED <<tar_files, unextractable, dry_run, num_workers, jsonl, results, report, notExtractor>>

\* a free process of the pool takes the task of t
WorkerTakes(t) ==
    /\ xphase = "pool"
    /\ future[t] = Pending
    /\ Cardinality({u \in tar_files : future[u] = Running}) < num_workers
    /\ future' = [future EXCEPT ![t] = Running]
    /\ UNCHANGED <<tar_files, unextractable, dry_run, num_workers, jsonl, results, report, xphase,
                   notExtractor>>

\* process_single_tar_worker, lines 25-58: process_single_tar returned
\* texts_count, the texts it wrote; 0 when safe_extract_tar caught the
\* error of an archive it cannot extract, or when the archive has no xz member
WorkerReturns(t, texts_count) ==
    /\ xphase = "pool"
    /\ future[t] = Running
    /\ t \in unextractable => texts_count = 0
    /\ jsonl' = jsonl \cup {t}
    /\ future' = [future EXCEPT ![t] = Returned(TextsResult(t, texts_count))]
    /\ UNCHANGED <<tar_files, unextractable, dry_run, num_workers, results, report, xphase, notExtractor>>

\* process_single_tar_worker, lines 60-77: the try block raised e; the output
\* file, if it exists, is removed
WorkerCatches(t, e) ==
    /\ xphase = "pool"
    /\ future[t] = Running
    /\ jsonl' = jsonl \ {t}
    /\ future' = [future EXCEPT ![t] = Returned(ErrorResult(t, e))]
    /\ UNCHANGED <<tar_files, unextractable, dry_run, num_workers, results, report, xphase, notExtractor>>

\* process_single_tar_worker, line 61: the except block itself raises e, after
\* the try block raised with the output file opened or not; the exception
\* travels to main inside the future
WorkerRaises(t, e, opened) ==
    /\ xphase = "pool"
    /\ future[t] = Running
    /\ jsonl' = IF opened THEN jsonl \cup {t} ELSE jsonl
    /\ future' = [future EXCEPT ![t] = Excepted(e)]
    /\ UNCHANGED <<tar_files, unextractable, dry_run, num_workers, results, report, xphase, notExtractor>>

\* the process working on t dies: the executor sets BrokenProcessPool on
\* every future that has no result yet
PoolBreaks(t, opened) ==
    /\ xphase = "pool"
    /\ future[t] = Running
    /\ jsonl' = IF opened THEN jsonl \cup {t} ELSE jsonl
    /\ future' = [u \in tar_files |->
                     IF Done(future[u]) THEN future[u] ELSE Excepted("BrokenProcessPool")]
    /\ UNCHANGED <<tar_files, unextractable, dry_run, num_workers, results, report, xphase, notExtractor>>

\* main, lines 152-170: as_completed hands out a finished future once
Collect(t) ==
    /\ xphase = "pool"
    /\ Done(future[t])
    /\ \A i \in DOMAIN results : results[i].tar_file # t
    /\ results' = Append(results, Collected(t, future[t]))
    /\ UNCHANGED <<tar_files, unextractable, dry_run, num_workers, future, jsonl, report, xphase,
                   notExtractor>>

\* main, lines 172-199: the loop over as_completed has ended
Report ==
    /\ xphase = "pool"
    /\ \A t \in tar_files : \E i \in DOMAIN results : results[i].tar_file = t
    /\ report' = Summary(results)
    /\ xphase' = "reported"
    /\ UNCHANGED <<tar_files, unextractable, dry_run, num_workers, future, jsonl, results, notExtractor>>

NextTar ==
    \/ MainReturns
    \/ SubmitAll
    \/ \E t \in tar_files : WorkerTakes(t)
    \/ \E t \in tar_files, k \in 0 .. MaxTexts : WorkerReturns(t, k)
    \/ \E t \in tar_files, e \in WorkerErrors : WorkerCatches(t, e)
    \/ \E t \in tar_files, e \in HandlerErrors, o \in BOOLEAN : WorkerRaises(t, e, o)
    \/ \E t \in tar_files, o \in BOOLEAN : PoolBreaks(t, o)
    \/ \E t \in tar_files : Collect(t)
    \/ Report

SpecTar == InitTar /\ [][NextTar]_vars

\* ------------------------------------------------------------- claims
Completed(d) == d.st = "ok" /\ d.completed

HasBatch(d, k, r) == d.st = "ok" /\ k \in DOMAIN d.batches /\ d.batches[k] = r

\* the batches a later reader is entitled to find: those whose update_result
\* has returned (while the writer is inside update_result, the record it read)
DurableBatches(d, p, w, bi) ==
    CASE w = "Writing" -> [k \in DOMAIN p.batches \ {bi} |-> p.batches[k]]
      [] w = "Marking" -> p.batches
      [] OTHER         -> IF d.st = "ok" THEN d.batches ELSE <<>>

\* C1: crash recovery.  With an analyzer that never raises, a worker started
\* after a kill resumes right after the last batch committed before the kill
\* (resume offset k, next batch k+1), and a completed checkpoint equals the
\* checkpoint of the uninterrupted run.
C1_CrashRecovery ==
    poison = 0 =>
        \A f \in Files :
            /\ wpc[f] \in {"queued", "Resuming"}
                    => resume[f] = MaxOf(DOMAIN committed[f])
            /\ Completed(disk[f]) => disk[f] = Uninterrupted(f)

\* C2: the keys of batches are batch_1..batch_m without a gap, in every
\* checkpoint record of every back end.
C2_GapFreePrefix ==
    \A f \in Files :
        disk[f].st = "ok"
            => DOMAIN disk[f].batches = 1 .. Cardinality(DOMAIN disk[f].batches)

\* C3: after a kill at any point, the resume offset build_resume_list computes
\* is at least the number of batches committed before the kill, and every
\* committed result is still in the record.
C3_KillKeepsCommitted ==
    phase = "killed" =>
        \A f \in Files :
            /\ Completed(disk[f])
                    \/ ResumeOffset(disk[f]) >= Cardinality(DOMAIN committed[f])
            /\ \A k \in DOMAIN committed[f] : HasBatch(disk[f], k, committed[f][k])

\* C4: every batch commit of a planned file uses a sequence number strictly
\* greater than the batch_cnt its checkpoint held when the plan was computed.
C4_NoRecommit ==
    \A f \in Files :
        /\ wpc[f] \in {"Committing", "Writing"} => batch_index[f] > cntAtPlan[f]
        /\ wpc[f] = "Writing" => pending[f].batch_cnt > cntAtPlan[f]

C4_Witness ==
    \E f \in Files : wpc[f] = "Writing" /\ cntAtPlan[f] >= 1 /\ resume[f] >= 1

\* C5: a file whose checkpoint has completed = true is never planned, never
\* handed to the analyzer and its checkpoint file is never written again.
C5_CompletedUntouched ==
    [][\A f \in Files :
          Completed(disk[f]) =>
              /\ disk'[f] = disk[f]
              /\ calls'[f] <= calls[f]
              /\ wpc'[f] \in {"none", "Done"}]_vars

C5_Witness ==
    /\ phase = "running"
    /\ \E f, g \in Files :
          /\ Completed(disk[f]) /\ wpc[f] = "none" /\ disk[f].batch_cnt >= 1
          /\ wpc[g] = "Writing"

\* C6: two runs that both end normally, one after the other, leave the same
\* checkpoint contents as the first of them.
C6_Idempotent ==
    (phase = "finished" /\ runsDone = 2) => disk = onceDisk

C6_Witness ==
    /\ phase = "finished"
    /\ runsDone = 2
    /\ \A f \in Files : Completed(disk[f]) /\ disk[f].batch_cnt >= 2

\* C7: in every parsable checkpoint record, on disk or about to be dumped,
\* batch_cnt is the highest sequence number among the keys of batches (0 when
\* there is none).
C7_BatchCntIsHighest ==
    \A f \in Files :
        /\ disk[f].st = "ok" => disk[f].batch_cnt = MaxOf(DOMAIN disk[f].batches)
        /\ pending[f].st = "ok"
              => pending[f].batch_cnt = MaxOf(DOMAIN pending[f].batches)

C7_Witness ==
    \E f \in Files :
        /\ corruptAtPlan[f]
        /\ Completed(disk[f])
        /\ disk[f].batch_cnt >= 2

\* C8: a checkpoint record only grows: a batch entry a reader could find stays
\* with the same result, completed never goes back to false, and a completed
\* record gets no further entry.
C8_Additive ==
    [][\A f \in Files :
          LET old == DurableBatches(disk[f], pending[f], wpc[f], batch_index[f])
              new == DurableBatches(disk'[f], pending'[f], wpc'[f], batch_index'[f])
          IN /\ \A k \in DOMAIN old : k \in DOMAIN new /\ new[k] = old[k]
             /\ Completed(disk[f]) =>
                    Completed(disk'[f]) /\ DOMAIN new = DOMAIN old]_vars

\* C9: a file whose checkpoint was unparsable when the plan was computed is
\* planned with resume offset 0 and, when the run has ended on its own, has
\* been reprocessed from its first to its last batch; every other file has the
\* record it would have had (with an analyzer that never raises: the record of
\* its uninterrupted run).
C9_CorruptRestart ==
    \A f \in Files :
        (corruptAtPlan[f] /\ poison = 0) =>
            /\ phase = "running" => resume[f] = 0
            /\ phase \in {"finished", "aborted"}
                    => \A g \in Files : disk[g] = Uninterrupted(g)

\* C10: no worker raises on an unparsable checkpoint file, in any back end.
C10_CorruptNeverFatal ==
    \A f \in Files : wpc[f] # "JSONDecodeError"

\* C11: when the analyzer raises on batch k of a file, the file's record ends
\* with batch_k mapped to the empty mapping, every other batch with its actual
\* result, and completed = true.
C11_FailedBatchRecordedEmpty ==
    \A f \in Files :
        Completed(disk[f]) =>
            \A k \in 1 .. NumBatches(nrec[f], batch_size) :
                LET items == Chunk((k - 1) * batch_size, batch_size, nrec[f])
                IN IF Outcome(backend, items, poison) = "ok"
                   THEN HasBatch(disk[f], k, Analyze(backend, items, poison))
                   ELSE HasBatch(disk[f], k, <<>>)

\* C12: an analyzer exception on one batch never leaves the worker loop: no
\* worker ends with the exception, so neither its file nor the run is aborted,
\* in any back end.
C12_AnalyzerErrorContained ==
    \A f \in Files : wpc[f] # "AnalyzerError"

\* C13: when the analyzer is about to be invoked on batch k+1 of a file
\* (k >= 1), batch k is in the file's checkpoint on disk.
C13_CommitBeforeNextAnalyze ==
    \A f \in Files :
        (wpc[f] = "Committing" /\ batch_index[f] >= 2)
            => /\ disk[f].st = "ok"
               /\ batch_index[f] - 1 \in DOMAIN disk[f].batches

\* C17: a worker resumed at offset k discards min(k * B, N) records and numbers
\* its first batch k + 1; the batch analysed and committed under number j is
\* made of records (j-1)*B+1 .. min(j*B, N), whichever run commits it.
C17_SkipAndNumbering ==
    \A f \in Files :
        /\ (wpc[f] = "Streaming" /\ calls[f] = 0)
              => pos[f] = Min(resume[f] * batch_size, nrec[f])
        /\ (wpc[f] = "Committing" /\ calls[f] = 0)
              => batch_index[f] = resume[f] + 1
        /\ wpc[f] \in {"Committing", "Writing"}
              => batch_items[f] = ((batch_index[f] - 1) * batch_size + 1)
                                    .. Min(batch_index[f] * batch_size, nrec[f])
        /\ wpc[f] = "Writing"
              => pending[f].batches[batch_index[f]]
                    = Analyze(backend,
                              ((batch_index[f] - 1) * batch_size + 1)
                                 .. Min(batch_index[f] * batch_size, nrec[f]),
                              poison)

C17_Witness ==
    \E f \in Files :
        /\ wpc[f] = "Writing"
        /\ resume[f] >= 1
        /\ batch_size >= 2
        /\ batch_index[f] = resume[f] + 1

\* the checkpoint of file name n (none: Absent)
CheckpointOf(n) == IF n \in DOMAIN result_files THEN result_files[n] ELSE Absent

\* the input files of the run: the directory entries that end in the suffix
\* of the dataset's format
InputFiles ==
    IF DataSuffix(backend, dataset_name) = ""
    THEN {}
    ELSE {file \in data_dir : EndsWith(file, DataSuffix(backend, dataset_name))}

\* C14: single writer per file.  Whatever the data directory lists, no file
\* name appears in two elements of the plan, so no two workers of a run get
\* the same file.
C14_PlanHasNoDuplicate ==
    phase = "planned" =>
        \A e1, e2 \in resume_list : e1[2] = e2[2] => e1 = e2

\* C15: build_resume_list resolves every input file by its checkpoint:
\* completed -> not in the plan; parsable and not completed -> in the plan with
\* the stored batch_cnt; no (usable) checkpoint -> in the plan with offset 0;
\* and the plan holds nothing else.
C15_PlanResolution ==
    phase = "planned" =>
        /\ \A file \in InputFiles :
              LET n == StripSuffix(file, DataSuffix(backend, dataset_name))
                  d == CheckpointOf(n)
              IN IF Completed(d)
                 THEN \A e \in resume_list : e[2] # n
                 ELSE <<file, n, IF d.st = "ok" THEN d.batch_cnt ELSE 0>> \in resume_list
        /\ \A e \in resume_list : e[1] \in InputFiles

\* C16: every element of the plan comes from a directory entry that ends in
\* the suffix of the dataset's format, in every copy of build_resume_list.
C16_PlanOnlyMatchingNames ==
    phase = "planned" =>
        \A e \in resume_list : EndsWith(e[1], DataSuffix(backend, dataset_name))

\* C18: an input file that cannot be opened ends only its own worker: the run
\* is not aborted, and when it has ended every other planned file is
\* completed, for every dataset format.
C18_UnreadableEndsOnlyItsWorker ==
    /\ phase # "aborted"
    /\ \A f \in Files : wpc[f] = "ReadError" => f \in unreadable
    /\ (phase = "finished" /\ DataSuffix(backend, dataset_name) # "")
          => \A f \in Files \ unreadable : Completed(disk[f])

\* C19: a run never sets completed = true in the checkpoint of a file whose
\* input cannot be opened, so a later run plans the file again.
C19_UnreadableNeverCompleted ==
    [][\A f \in unreadable : Completed(disk'[f]) => Completed(disk[f])]_vars

\* the numbers of the well-formed lines, in order
WellFormed(ls) == SelectSeq([i \in 1 .. Len(ls) |-> i], LAMBDA i : ls[i] = "ok")

\* C20: when the stream of iter_dataset has ended, it has yielded exactly the
\* payloads of the well-formed lines, in order: a malformed line (no JSON, no
\* payload field, undecodable data) is skipped and never ends the stream.
C20_YieldsWellFormedLines ==
    gen \in {"exhausted", "raised"} => yielded = WellFormed(lines)

\* the concatenation of the groups, in order
RECURSIVE Concat(_)
Concat(gs) == IF gs = <<>> THEN <<>> ELSE Head(gs) \o Concat(Tail(gs))

\* C21: for size n >= 1 batched never yields an empty group, every group but
\* the last has exactly n elements, the last has 1..n, and an empty input
\* yields no group.
C21_GroupShape ==
    size >= 1 =>
        /\ \A i \in 1 .. Len(groups) : Len(groups[i]) \in 1 .. size
        /\ \A i \in 1 .. Len(groups) - 1 : Len(groups[i]) = size
        /\ bgen = "returned" => Len(groups) = NumBatches(Len(iterable), size)
        /\ iterable = <<>> => groups = <<>>

C21_Witness ==
    /\ bgen = "returned"
    /\ size = 2
    /\ Len(groups) = 2
    /\ Len(groups[2]) = 1

\* C22 as claimed: for every size, the groups batched has yielded when it
\* ends concatenate to the input sequence, and are the groups of a second
\* application.
C22_LosslessEverySize ==
    bgen \in {"returned", "raised"} =>
        /\ Concat(groups) = iterable
        /\ groups = Batched(iterable, 0, size)

\* C22, amended: for every size n >= 1, the groups batched has yielded when it
\* ends concatenate to the input sequence (nothing lost, duplicated or
\* reordered), and a second application to the same sequence with the same
\* size gives the same groups.
C22_Lossless ==
    (bgen = "returned" /\ size >= 1) =>
        /\ Concat(groups) = iterable
        /\ groups = Batched(iterable, 0, size)

C22_Witness ==
    /\ bgen = "returned"
    /\ size = 2
    /\ Len(iterable) = 3
    /\ iterable[1] = iterable[3]
    /\ Len(groups) = 2

\* the record with an entry for every batch of file f: batch k made of
\* records (k-1)*B+1 .. min(k*B, N)
FullRecord(f) ==
    [st |-> "ok",
     batches |-> [k \in 1 .. NumBatches(nrec[f], batch_size) |->
                    Analyze(backend,
                            ((k - 1) * batch_size + 1) .. Min(k * batch_size, nrec[f]),
                            poison)],
     batch_cnt |-> NumBatches(nrec[f], batch_size),
     completed |-> TRUE]

C24_DebugOneBatchNoMark ==
    debug =>
        \A f \in Files :
            /\ calls[f] <= 1
            /\ wpc[f] # "Marking"
            /\ ~Completed(disk[f])

\* C25: a run that follows a debug run in which file f was processed plans f
\* with resume offset 0 (for a run without --debug: when f has no checkpoint
\* of an earlier run without --debug).
C25_AfterDebugFromBatchOne ==
    [][\A f \in Files :
          (/\ debug /\ phase = "finished" /\ wpc[f] = "Done"
           /\ phase' = "running" /\ wpc'[f] = "queued"
           /\ debug' \/ shelf[f].st = "absent")
              => resume'[f] = 0]_vars

\* C26: update_result(..., completed=True) on a stored record dumps that
\* record with completed = true and the same batches and batch_cnt, and that
\* is what the file holds when the call has returned.
C26_MarkKeepsBatches ==
    [][\A f \in Files :
          /\ (wpc[f] = "Streaming" /\ wpc'[f] = "Marking" /\ disk[f].st = "ok")
                => pending'[f] = [disk[f] EXCEPT !.completed = TRUE]
          /\ (wpc[f] = "Marking" /\ wpc'[f] = "Done")
                => /\ disk'[f] = pending[f]
                   /\ disk'[f].completed]_vars

C26_Witness ==
    \E f \in Files :
        /\ wpc[f] = "Done"
        /\ Completed(disk[f])
        /\ DOMAIN disk[f].batches = {1, 2}
        /\ disk[f].batch_cnt = 2

\* C29: a checkpoint with completed = true has an entry for every batch
\* 1 .. ceil(N/B) of its file, N being the records the input file holds: no
\* file is marked completed while records of it are unread.
C29_CompletedHasEveryBatch ==
    \A f \in Files :
        Completed(disk[f])
            => DOMAIN disk[f].batches = 1 .. NumBatches(nrec[f], batch_size)

\* C30: for every dataset name the planner makes a plan for, the worker
\* finds its input path and the reader reads the file: no worker ends with
\* file_path unbound, and no file is marked completed with fewer batches
\* than its records make.
C30_DatasetNameAgreement ==
    \A f \in Files :
        /\ wpc[f] # "UnboundLocalError"
        /\ Completed(disk[f]) => disk[f].batch_cnt = NumBatches(nrec[f], batch_size)

\* the cause a tar file failed with, "" when it did not fail
CauseOf(fu) ==
    IF fu.st = "exception" THEN fu.error
    ELSE IF fu.st = "result" /\ fu.result.status = "error" THEN fu.result.error
    ELSE ""

\* the results main counts under one of the three headings of its report
ClassOf(c, rs) ==
    CASE c = "succeeded" -> Successful(rs)
      [] c = "no_texts" -> NoTexts(rs)
      [] c = "failed" -> Failed(rs)

\* C28: in the parallel extractor no exception met while one tar file is
\* processed keeps main from its report (main returns early only when
\* there is no tar file or --dry-run was given); at the report every tar file
\* has exactly one result, every result is in exactly one of succeeded,
\* no-texts and failed, the three counts add up to the number of tar files,
\* and every tar file that failed is listed with its cause.
C28_EveryTarAccounted ==
    /\ xphase = "returned" => tar_files = {} \/ dry_run
    /\ xphase = "reported" =>
        /\ \A t \in tar_files :
               Cardinality({i \in DOMAIN results : results[i].tar_file = t}) = 1
        /\ \A i \in DOMAIN results :
               Cardinality({c \in {"succeeded", "no_texts", "failed"} :
                               Len(ClassOf(c, <<results[i]>>)) = 1}) = 1
        /\ report.successful + report.no_texts + report.failed = Cardinality(tar_files)
        /\ \A t \in tar_files :
               CauseOf(future[t]) # ""
                   => \E i \in DOMAIN report.listed :
                          report.listed[i] = <<t, CauseOf(future[t])>>

\* a report after one tar file failed inside the worker's try block and
\* another one's exception reached main through its future
C28_Witness ==
    /\ xphase = "reported"
    /\ report.failed = 2
    /\ \E i \in DOMAIN results : results[i].status = "error"
    /\ \E i \in DOMAIN results : results[i].status = "exception"

\* the summaries main has received for the file of task f
Summaries(f) ==
    Cardinality({g \in Files : FileOf(g) = FileOf(f) /\ wpc[g] = "Done"})

\* C27: for every plan, every number of pool processes and every task cap,
\* a run that nothing interrupts collects exactly one summary per planned
\* file and leaves for every file planned from offset 0 the checkpoint that
\* processing the files one after another leaves: every batch, batch_cnt =
\* ceil(N/B), completed.
C27_PoolAsSequential ==
    phase = "finished" =>
        \A f \in Files :
            wpc[f] # "none" =>
                /\ Summaries(f) = 1
                /\ (cntAtPlan[f] = 0 /\ ~corruptAtPlan[f])
                       => disk[FileOf(f)] = FullRecord(FileOf(f))

\* C31: when process_batches_for_file has returned, its summary agrees with
\* the checkpoint on disk: last_batch_cnt is the record's batch_cnt,
\* last_batch_cnt = resume offset + batches_processed, and completed is the
\* record's completed flag.
C31_SummaryAgreesWithRecord ==
    \A f \in Files :
        wpc[f] = "Done" =>
            /\ SummaryOf(f).last_batch_cnt = disk[f].batch_cnt
            /\ SummaryOf(f).last_batch_cnt = resume[f] + SummaryOf(f).batches_processed
            /\ SummaryOf(f).completed = disk[f].completed

\* the steps of a file worker: Resuming, then Streaming and Committing in
\* turn (Writing is the commit of the batch just analyzed), then the
\* completion mark and Done; with --debug, Done right after the first commit
WorkerSteps ==
    {<<"queued", "Resuming">>, <<"Resuming", "Streaming">>,
     <<"Streaming", "Committing">>, <<"Committing", "Writing">>,
     <<"Committing", "Streaming">>, <<"Writing", "Streaming">>,
     <<"Streaming", "Marking">>, <<"Marking", "Done">>,
     <<"Writing", "Done">>, <<"Streaming", "Done">>}

\* C32: a file worker goes through Resuming, then Streaming and Committing in
\* turn, and ends in Done: unless the run is killed or a new run starts, every
\* step of a worker is one of WorkerSteps, so no worker ends in an exception.
C32_WorkerEndsInDone ==
    [][\A f \in Files :
          wpc'[f] # wpc[f]
              => \/ <<wpc[f], wpc'[f]>> \in WorkerSteps
                 \/ wpc'[f] \in {"none", "queued"}]_vars

\* the analyzer invocations of the run on batches of the file of task f
Handed(f) == IF same THEN calls["f1"] + calls["f2"] ELSE calls[f]

\* C33: in a run without --debug that nothing interrupts, the batches of a
\* planned file handed to the analyzer are, in this order, batch offset+1,
\* offset+2, ... (never one at or below the resume offset, none twice), and
\* when the run has finished every batch above the offset has been handed
\* over exactly once.
C33_EachBatchAnalyzedOnce ==
    ~debug =>
        \A f \in Files :
            LET file == FileOf(f)
                k == resume[f] + calls[f] + 1
            IN  /\ wpc[f] = "Committing"
                    => batch_items[f] = ((k - 1) * batch_size + 1)
                                            .. Min(k * batch_size, nrec[file])
                /\ (phase = "finished" /\ wpc[f] = "Done")
                    => Handed(f) = NumBatches(nrec[file], batch_size) - resume[f]

\* C34: a checkpoint file is created only by the first batch commit of its
\* file: whenever a parsable checkpoint file exists it holds at least one
\* batch entry, so none exists for a file that yields no batch.
C34_CheckpointHasBatch ==
    \A f \in Files :
        disk[f].st = "ok" => DOMAIN disk[f].batches # {}

\* C35: in the parallel extractor a tar file whose processing failed (an
\* exception in the worker, or an archive that cannot be extracted) has no
\* output .jsonl file when main reports, and its result is counted as failed,
\* not as succeeded or no-texts.
C35_FailedTarLeavesNothing ==
    xphase = "reported" =>
        \A t \in tar_files :
            (t \in unextractable \/ CauseOf(future[t]) # "") =>
                /\ t \notin jsonl
                /\ \A i \in DOMAIN results :
                       results[i].tar_file = t => Len(Failed(<<results[i]>>)) = 1

\* C36: process_single_tar returns the number of JSON lines it wrote; the
\* text_id values written are 0, 1, ..., count-1 in write order; and when
\* max_texts is a positive integer no more than max_texts lines are written,
\* whatever the xz members and their texts.
C36_ReturnsLinesWritten ==
    /\ written = [i \in 1 .. Len(written) |-> i - 1]
    /\ max_texts > 0 => Len(written) <= max_texts
    /\ xzpc = "returned" => returned = Len(written)

\* a return after the limit cut the third member short, with a member
\* that gave no text before it
C36_Witness ==
    /\ xzpc = "returned"
    /\ max_texts = 2
    /\ xz_files = <<0, 1, 2>>
    /\ returned = 2
    /\ written = <<0, 1>>

====
